---- MODULE Spec2Model ----
(***************************************************************************)
(* Visit and Attendance lifecycle of the EasyDoor backend.                 *)
(*                                                                         *)
(* The document store is modelled as functions from identifiers to         *)
(* documents.  A handler that awaits the store several times is one action *)
(* in the sequential specifications (Spec, SpecAttendance) and one step    *)
(* per await in the interleaved ones (SpecVisitRace, SpecAttendanceRace).  *)
(* Dates are whole minutes since an arbitrary origin; the code's           *)
(* millisecond arithmetic is carried out in minutes.                       *)
(* SpecVisitFaults lets the store throw inside createVisit, SpecDuration   *)
(* clocks out minute by minute, SpecSummary adds the attendance summary    *)
(* and SpecAuth is the login and the auth middleware.                      *)
(***************************************************************************)
EXTENDS Integers, Sequences, FiniteSets, TLC

VARIABLES
  now,        \* the latest value new Date() has returned
  users,      \* User collection: id -> [visits, active, token]
  visits,     \* Visit collection: id -> document
  nextVisit,  \* the next fresh Visit _id
  attendance, \* Attendance collection: id -> document
  nextAtt,    \* the next fresh Attendance _id
  nUpdates,   \* generic PATCH requests served so far
  last,       \* the last request served: handler, target, response
  scen,       \* per visit: the answers so far while it is driven accept, clockIn, clockOut
  reqs,       \* requests in flight (interleaved specifications)
  base,       \* the document as it was when the first in-flight request started
  tokens,     \* the JWTs issued so far: serial -> [userId, expired]
  cards,      \* ServiceCard collection: id -> document
  nextCard,   \* the next fresh ServiceCard _id
  offices,    \* Office collection: id -> document
  companies   \* Company collection: id -> document

vars == <<now, users, visits, nextVisit, attendance, nextAtt, nUpdates, last, scen, reqs, base,
          tokens, cards, nextCard, offices, companies>>

----------------------------------------------------------------------------
(* Bounds *)

MaxTicks == 2
MinutesPerTick == 45
MaxUpdates == 1
MaxCommentLen == 55

(* Program constants *)

MinutesPerHour == 60
Null == -1

NullStr == "<null>"
NullRef == "<none>"
Absent == "<absent>"
AbsentDate == 0 - 2

UserIds == {"u1"}
OfficeIds == {"o1"}
\* a handler of the visit routes touches one Visit document, so one _id is served
VisitIds == {1}
MissingId == "missing"

Times == {t * MinutesPerTick : t \in 0..MaxTicks}
Statuses == {"pending", "accepted", "cancelled", "in_progress", "completed"}
CommentInputs == {NullStr, "vip"}
ReasonInputs == {NullStr, "late", "late "}

NoDoc == [exists |-> FALSE]
NoRequest == [op |-> "none", id |-> 0, resp |-> "none"]
EmptyStore == [i \in {} |-> NoDoc]

Truthy(s) == s # NullStr /\ s # ""

\* a registered user: no visit yet, active = 1 by default, token null (logged out)
NewUser ==
  [visits |-> <<>>, active |-> 1, token |-> Null, phone |-> NullStr,
   serviceCard |-> Null, employer |-> NullRef]

----------------------------------------------------------------------------
(* Visit model: schema defaults and the two pre('save') hooks *)

NewVisit(visitor, employee, comment, office) ==
  [ visitor  |-> visitor,
    employee |-> employee,
    clockIn  |-> Null,
    clockOut |-> Null,
    duration |-> NullStr,
    comment  |-> comment,
    status   |-> "pending",
    office   |-> office ]

\* JavaScript % : the result takes the sign of the dividend
JsRem(a, b) == IF a >= 0 THEN a % b ELSE 0 - ((0 - a) % b)

\* mutant: the hours are rendered even when there are none
FormatDuration_AlwaysHours(delta) ==
  ToString(delta \div MinutesPerHour) \o "h "
    \o ToString(JsRem(delta, MinutesPerHour)) \o "m"

FormatDuration(delta) ==
  LET hours   == delta \div MinutesPerHour
      minutes == JsRem(delta, MinutesPerHour)
  IN  IF hours > 0
        THEN ToString(hours) \o "h " \o ToString(minutes) \o "m"
        ELSE ToString(minutes) \o "m"

\* mutant: a visit with both clock fields is completed whatever its status
VisitDurationHook_AlwaysCompletes(doc) ==
  IF doc.clockIn # Null /\ doc.clockOut # Null
    THEN [doc EXCEPT !.duration = FormatDuration(doc.clockOut - doc.clockIn),
                     !.status = "completed"]
    ELSE doc

\* mutant: the duration is computed but an in_progress visit is not completed
VisitDurationHook_KeepsStatus(doc) ==
  IF doc.clockIn # Null /\ doc.clockOut # Null
    THEN [doc EXCEPT !.duration = FormatDuration(doc.clockOut - doc.clockIn)]
    ELSE doc

VisitDurationHook(doc) ==
  IF doc.clockIn # Null /\ doc.clockOut # Null
    THEN [doc EXCEPT !.duration = FormatDuration(doc.clockOut - doc.clockIn),
                     !.status = IF @ = "in_progress" THEN "completed" ELSE @]
    ELSE doc

VisitInProgressHook(doc) ==
  IF doc.clockIn # Null /\ doc.clockOut = Null /\ doc.status = "accepted"
    THEN [doc EXCEPT !.status = "in_progress"]
    ELSE doc

VisitPreSave(doc) == VisitInProgressHook(VisitDurationHook(doc))

\* document.save(): the hooks run on the in-memory document, then the paths
\* that differ from what was loaded are $set on the stored document
SaveDoc(stored, loaded, edited) ==
  [f \in DOMAIN stored |-> IF edited[f] # loaded[f] THEN edited[f] ELSE stored[f]]

----------------------------------------------------------------------------
(* Visit controller: what each lifecycle handler does to the document it    *)
(* loaded, and what it answers                                              *)

\* mutant: the status check is missing
AcceptOutcome_NoCheck(doc) ==
  [resp |-> "ok", doc |-> VisitPreSave([doc EXCEPT !.status = "accepted"])]

AcceptOutcome(doc) ==
  IF doc.status # "pending"
    THEN [resp |-> "InvalidState", doc |-> doc]
    ELSE [resp |-> "ok", doc |-> VisitPreSave([doc EXCEPT !.status = "accepted"])]

Whitespace == {" ", "\n", "\t"}

RECURSIVE TrimStart(_)
TrimStart(s) ==
  IF Len(s) > 0 /\ SubSeq(s, 1, 1) \in Whitespace
    THEN TrimStart(SubSeq(s, 2, Len(s)))
    ELSE s

RECURSIVE TrimEnd(_)
TrimEnd(s) ==
  IF Len(s) > 0 /\ SubSeq(s, Len(s), Len(s)) \in Whitespace
    THEN TrimEnd(SubSeq(s, 1, Len(s) - 1))
    ELSE s

\* the setter of a String path declared with trim: true
Trim(s) == TrimEnd(TrimStart(s))

\* mutant: the reason replaces the comment
CancelComment_Replaces(comment, reason) ==
  IF Truthy(reason)
    THEN Trim("Cancellation reason: " \o reason)
    ELSE comment

\* the comment after cancelVisit: assigned (and trimmed) only when a reason is given
CancelComment(comment, reason) ==
  IF Truthy(reason)
    THEN Trim(IF Truthy(comment)
                THEN comment \o "\nCancellation reason: " \o reason
                ELSE "Cancellation reason: " \o reason)
    ELSE comment

\* mutant: the completed check is missing
CancelOutcome_NoCheck(doc, reason) ==
  [resp |-> "ok",
   doc  |-> VisitPreSave([doc EXCEPT !.status = "cancelled",
                                     !.comment = CancelComment(@, reason)])]

CancelOutcome(doc, reason) ==
  IF doc.status = "completed"
    THEN [resp |-> "InvalidState", doc |-> doc]
    ELSE [resp |-> "ok",
          doc  |-> VisitPreSave([doc EXCEPT !.status = "cancelled",
                                            !.comment = CancelComment(@, reason)])]

ClockInOutcome(doc, t) ==
  IF doc.status # "accepted"
    THEN [resp |-> "InvalidState", doc |-> doc]
    ELSE IF doc.clockIn # Null
      THEN [resp |-> "AlreadyDone", doc |-> doc]
      ELSE [resp |-> "ok",
            doc  |-> VisitPreSave([doc EXCEPT !.clockIn = t, !.status = "in_progress"])]

\* mutant: the clocked-in check is missing
ClockOutOutcome_NoClockInCheck(doc, t) ==
  IF doc.clockOut # Null
    THEN [resp |-> "AlreadyDone", doc |-> doc]
    ELSE [resp |-> "ok", doc |-> VisitPreSave([doc EXCEPT !.clockOut = t])]

\* mutant: the already-clocked-out check is missing
ClockOutOutcome_NoRepeatCheck(doc, t) ==
  IF doc.clockIn = Null
    THEN [resp |-> "Precondition", doc |-> doc]
    ELSE [resp |-> "ok", doc |-> VisitPreSave([doc EXCEPT !.clockOut = t])]

ClockOutOutcome(doc, t) ==
  IF doc.clockIn = Null
    THEN [resp |-> "Precondition", doc |-> doc]
    ELSE IF doc.clockOut # Null
      THEN [resp |-> "AlreadyDone", doc |-> doc]
      ELSE [resp |-> "ok", doc |-> VisitPreSave([doc EXCEPT !.clockOut = t])]

LifecycleOps == {"accept", "cancel", "clockIn", "clockOut"}

\* the handler of a lifecycle route, applied to a loaded document
Outcome(op, doc, t, reason) ==
  CASE op = "accept"   -> AcceptOutcome(doc)
    [] op = "cancel"   -> CancelOutcome(doc, reason)
    [] op = "clockIn"  -> ClockInOutcome(doc, t)
    [] op = "clockOut" -> ClockOutOutcome(doc, t)

----------------------------------------------------------------------------
(* Record of the requests served *)

Served(op, id, resp) == [op |-> op, id |-> id, resp |-> resp]

Scenario == <<"accept", "clockIn", "clockOut">>
ScenarioOff == [on |-> FALSE, steps |-> <<>>]
ScenarioStart == [on |-> TRUE, steps |-> <<>>]

Track(s, op, resp, status) ==
  IF s.on /\ Len(s.steps) < Len(Scenario) /\ Scenario[Len(s.steps) + 1] = op
    THEN [on |-> TRUE, steps |-> Append(s.steps, [resp |-> resp, status |-> status])]
    ELSE ScenarioOff

----------------------------------------------------------------------------
(* Visit controller, each request served without interleaving *)

attVars == <<attendance, nextAtt>>
raceVars == <<reqs, base>>
CompanyIds == {"c1", "c2"}

\* a company as createCompany stores it
NewCompany == [admin |-> <<>>, employee |-> <<>>, office |-> <<>>]

authVars == <<tokens>>
orgVars == <<cards, nextCard, offices, companies>>

\* mutant: the office reference is stored without being looked up
createVisit_NoOfficeCheck(visitor, employee, comment, office) ==
  /\ nextVisit \in VisitIds
  /\ IF visitor \notin DOMAIN users \/ employee \notin DOMAIN users
       THEN /\ last' = Served("createVisit", 0, "NotFound")
            /\ UNCHANGED <<visits, users, nextVisit, scen>>
       ELSE /\ visits' = visits @@ (nextVisit :>
                            VisitPreSave(NewVisit(visitor, employee, comment, office)))
            /\ users' = [users EXCEPT ![visitor].visits = Append(@, nextVisit)]
            /\ scen' = scen @@ (nextVisit :> ScenarioStart)
            /\ nextVisit' = nextVisit + 1
            /\ last' = Served("createVisit", nextVisit, "ok")
  /\ UNCHANGED <<now, nUpdates, attVars, raceVars, authVars, orgVars>>

createVisit(visitor, employee, comment, office) ==
  /\ nextVisit \in VisitIds
  /\ IF visitor \notin DOMAIN users \/ employee \notin DOMAIN users
        \/ (office # NullRef /\ office \notin OfficeIds)
       THEN /\ last' = Served("createVisit", 0, "NotFound")
            /\ UNCHANGED <<visits, users, nextVisit, scen>>
       ELSE /\ visits' = visits @@ (nextVisit :>
                            VisitPreSave(NewVisit(visitor, employee, comment, office)))
            /\ users' = [users EXCEPT ![visitor].visits = Append(@, nextVisit)]
            /\ scen' = scen @@ (nextVisit :> ScenarioStart)
            /\ nextVisit' = nextVisit + 1
            /\ last' = Served("createVisit", nextVisit, "ok")
  /\ UNCHANGED <<now, nUpdates, attVars, raceVars, authVars, orgVars>>

\* a lifecycle route: findById, the handler, save
Lifecycle(op, id, reason) ==
  IF id \notin DOMAIN visits
    THEN /\ last' = Served(op, id, "NotFound")
         /\ UNCHANGED <<now, visits, scen>>
    ELSE \E t \in Times :
           LET out == Outcome(op, visits[id], t, reason) IN
           /\ t >= now
           /\ now' = IF out.resp = "ok" /\ op \in {"clockIn", "clockOut"} THEN t ELSE now
           /\ visits' = [visits EXCEPT ![id] = SaveDoc(@, @, out.doc)]
           /\ scen' = [scen EXCEPT ![id] = Track(@, op, out.resp, visits'[id].status)]
           /\ last' = Served(op, id, out.resp)

acceptVisit(id) ==
  /\ Lifecycle("accept", id, NullStr)
  /\ UNCHANGED <<users, nextVisit, nUpdates, attVars, raceVars, authVars, orgVars>>

cancelVisit(id, reason) ==
  /\ Truthy(reason) /\ id \in DOMAIN visits =>
       Len(CancelComment(visits[id].comment, reason)) <= MaxCommentLen
  /\ Lifecycle("cancel", id, reason)
  /\ UNCHANGED <<users, nextVisit, nUpdates, attVars, raceVars, authVars, orgVars>>

clockInVisitor(id) ==
  /\ Lifecycle("clockIn", id, NullStr)
  /\ UNCHANGED <<users, nextVisit, nUpdates, attVars, raceVars, authVars, orgVars>>

clockOutVisitor(id) ==
  /\ Lifecycle("clockOut", id, NullStr)
  /\ UNCHANGED <<users, nextVisit, nUpdates, attVars, raceVars, authVars, orgVars>>

\* PATCH /api/visits/:id : findByIdAndUpdate with $set, no save hook runs
\* the request bodies served: one key each (no hook runs, so a body of several
\* keys stores what the same keys sent one by one store)
VisitPatches ==
  { p \in [ status   : Statuses \cup {"bogus", Absent},
            clockIn  : Times \cup {Null, AbsentDate},
            clockOut : Times \cup {Null, AbsentDate},
            visitor  : {Absent} ] :
      Cardinality({f \in {"status", "clockIn", "clockOut"} :
                     IF f = "status" THEN p.status # Absent ELSE p[f] # AbsentDate}) = 1 }

ApplyVisitPatch(doc, patch) ==
  [doc EXCEPT !.status   = IF patch.status = Absent THEN @ ELSE patch.status,
              !.clockIn  = IF patch.clockIn = AbsentDate THEN @ ELSE patch.clockIn,
              !.clockOut = IF patch.clockOut = AbsentDate THEN @ ELSE patch.clockOut,
              !.visitor  = IF patch.visitor = Absent THEN @ ELSE patch.visitor]

updateVisit(id, patch) ==
  /\ nUpdates < MaxUpdates
  /\ nUpdates' = nUpdates + 1
  /\ IF patch.status \notin Statuses \cup {Absent}
       THEN /\ last' = Served("updateVisit", id, "Failed")
            /\ UNCHANGED <<visits, scen>>
       ELSE IF id \notin DOMAIN visits
         THEN /\ last' = Served("updateVisit", id, "NotFound")
              /\ UNCHANGED <<visits, scen>>
         ELSE /\ visits' = [visits EXCEPT ![id] = ApplyVisitPatch(@, patch)]
              /\ scen' = [scen EXCEPT ![id] = ScenarioOff]
              /\ last' = Served("updateVisit", id, "ok")
  /\ UNCHANGED <<now, users, nextVisit, attVars, raceVars, authVars, orgVars>>

deleteVisit(id) ==
  /\ IF id \notin DOMAIN visits
       THEN /\ last' = Served("deleteVisit", id, "NotFound")
            /\ UNCHANGED <<visits, users, scen>>
       ELSE /\ visits' = [i \in DOMAIN visits \ {id} |-> visits[i]]
            /\ scen' = [i \in DOMAIN scen \ {id} |-> scen[i]]
            /\ users' = [u \in DOMAIN users |->
                           IF u = visits[id].visitor
                             THEN [users[u] EXCEPT !.visits = SelectSeq(@, LAMBDA v : v # id)]
                             ELSE users[u]]
            /\ last' = Served("deleteVisit", id, "ok")
  /\ UNCHANGED <<now, nextVisit, nUpdates, attVars, raceVars, authVars, orgVars>>

\* mutant: the visit saved is removed again when the $push throws
createVisitFault_RollsBack(visitor, employee, comment, office, failing) ==
  /\ nextVisit \in VisitIds
  /\ visitor \in DOMAIN users /\ employee \in DOMAIN users
  /\ office = NullRef \/ office \in OfficeIds
  /\ last' = Served("createVisit", 0, "Failed")
  /\ UNCHANGED <<visits, nextVisit, scen>>
  /\ UNCHANGED <<now, users, nUpdates, attVars, raceVars, authVars, orgVars>>

\* createVisit when the store throws at one of its two writes: at visit.save()
\* nothing is stored; at User.findByIdAndUpdate the visit is already stored and
\* the catch block only answers 400
createVisitFault(visitor, employee, comment, office, failing) ==
  /\ nextVisit \in VisitIds
  /\ visitor \in DOMAIN users /\ employee \in DOMAIN users
  /\ office = NullRef \/ office \in OfficeIds
  /\ IF failing = "save"
       THEN /\ last' = Served("createVisit", 0, "Failed")
            /\ UNCHANGED <<visits, nextVisit, scen>>
       ELSE /\ visits' = visits @@ (nextVisit :>
                            VisitPreSave(NewVisit(visitor, employee, comment, office)))
            /\ scen' = scen @@ (nextVisit :> ScenarioStart)
            /\ nextVisit' = nextVisit + 1
            /\ last' = Served("createVisit", nextVisit, "Failed")
  /\ UNCHANGED <<now, users, nUpdates, attVars, raceVars, authVars, orgVars>>

Init ==
  /\ now = 0
  /\ users = [u \in UserIds |-> NewUser]
  /\ visits = EmptyStore
  /\ nextVisit = 1
  /\ attendance = EmptyStore
  /\ nextAtt = 1
  /\ nUpdates = 0
  /\ last = NoRequest
  /\ scen = EmptyStore
  /\ reqs = EmptyStore
  /\ base = NoDoc
  /\ tokens = EmptyStore
  /\ cards = EmptyStore
  /\ nextCard = 1
  /\ offices = EmptyStore
  /\ companies = [c \in CompanyIds |-> NewCompany]

LifecycleNext ==
  \/ \E v \in UserIds \cup {MissingId}, e \in UserIds \cup {MissingId},
        c \in CommentInputs, o \in OfficeIds \cup {NullRef, MissingId} :
        createVisit(v, e, c, o)
  \/ \E id \in VisitIds : acceptVisit(id)
  \/ \E id \in VisitIds, r \in ReasonInputs : cancelVisit(id, r)
  \/ \E id \in VisitIds : clockInVisitor(id)
  \/ \E id \in VisitIds : clockOutVisitor(id)

Next ==
  \/ LifecycleNext
  \/ \E id \in VisitIds, p \in VisitPatches : updateVisit(id, p)
  \/ \E id \in VisitIds : deleteVisit(id)

\* every visit route
Spec == Init /\ [][Next]_vars

\* createVisit and the four lifecycle routes only
SpecLifecycle == Init /\ [][LifecycleNext]_vars

FailingWrites == {"save", "push"}

FaultNext ==
  \/ LifecycleNext
  \/ \E v \in UserIds, e \in UserIds, c \in CommentInputs, o \in OfficeIds \cup {NullRef},
        f \in FailingWrites : createVisitFault(v, e, c, o, f)

\* createVisit and the lifecycle routes, with a store that may throw at a
\* write of createVisit
SpecVisitFaults == Init /\ [][FaultNext]_vars

----------------------------------------------------------------------------
(* Visit lifecycle routes, two requests interleaved at their awaits:        *)
(* findById, save, and the findById that builds the answer                  *)

ReqIds == {"r1", "r2"}

Reply(kind, doc) == [kind |-> kind, visit |-> IF kind = "ok" THEN doc ELSE NoDoc]

\* the visit is brought to some state of its lifecycle before the two requests arrive
RaceSetup ==
  /\ reqs = EmptyStore
  /\ LifecycleNext

\* await Visit.findById(id), then the checks and the edits of the handler
ReadVisit(r, op, id, reason) ==
  /\ r \notin DOMAIN reqs
  /\ id \in DOMAIN visits
  /\ op = "cancel" /\ Truthy(reason) =>
       Len(CancelComment(visits[id].comment, reason)) <= MaxCommentLen
  /\ \E t \in Times :
       LET out == Outcome(op, visits[id], t, reason) IN
       /\ t >= now
       /\ now' = IF out.resp = "ok" /\ op \in {"clockIn", "clockOut"} THEN t ELSE now
       /\ reqs' = reqs @@ (r :>
            [ op |-> op, id |-> id, reason |-> reason,
              loaded |-> visits[id], edited |-> out.doc,
              pc |-> IF out.resp = "ok" THEN "save" ELSE "done",
              reply |-> Reply(out.resp, out.doc) ])
  /\ base' = IF reqs = EmptyStore THEN visits[id] ELSE base
  /\ UNCHANGED <<users, visits, nextVisit, nUpdates, last, scen, attVars, authVars, orgVars>>

\* await visit.save()
WriteVisit(r) ==
  /\ r \in DOMAIN reqs /\ reqs[r].pc = "save"
  /\ visits' = [visits EXCEPT ![reqs[r].id] = SaveDoc(@, reqs[r].loaded, reqs[r].edited)]
  /\ reqs' = [reqs EXCEPT ![r].pc = "respond"]
  /\ UNCHANGED <<now, users, nextVisit, nUpdates, last, scen, base, attVars, authVars, orgVars>>

\* res.json({ visit: await Visit.findById(visit._id) })
RespondVisit(r) ==
  /\ r \in DOMAIN reqs /\ reqs[r].pc = "respond"
  /\ reqs' = [reqs EXCEPT ![r].pc = "done",
                          ![r].reply = Reply("ok", visits[reqs[r].id])]
  /\ UNCHANGED <<now, users, visits, nextVisit, nUpdates, last, scen, base, attVars, authVars, orgVars>>

VisitRaceNext ==
  \/ RaceSetup
  \/ \E r \in ReqIds, op \in LifecycleOps, id \in VisitIds, reason \in ReasonInputs :
        ReadVisit(r, op, id, reason)
  \/ \E r \in ReqIds : WriteVisit(r)
  \/ \E r \in ReqIds : RespondVisit(r)

SpecVisitRace == Init /\ [][VisitRaceNext]_vars

\* one request served alone on document doc at time t
Serve(q, doc, t) ==
  LET out == Outcome(q.op, doc, t, q.reason)
  IN  [doc |-> out.doc, reply |-> Reply(out.resp, out.doc)]

\* what serving a then b, one after the other, can leave and answer
SerialRuns(doc, a, b) ==
  { LET first  == Serve(a, doc, t1)
        second == Serve(b, first.doc, t2)
    IN  [final |-> second.doc, replyA |-> first.reply, replyB |-> second.reply] :
    <<t1, t2>> \in {tt \in Times \X Times : tt[1] <= tt[2]} }

BothDone == DOMAIN reqs = ReqIds /\ \A r \in ReqIds : reqs[r].pc = "done"

\* C5: when two interleaved lifecycle requests on a visit have both been
\* answered, the stored visit and the two answers are those of the two
\* requests served one after the other, in one order or the other
C5_Serializable ==
  BothDone =>
    LET a == reqs["r1"]  b == reqs["r2"]
        got == [final |-> visits[a.id], replyA |-> a.reply, replyB |-> b.reply]
    IN  \/ got \in SerialRuns(base, a, b)
        \/ [final |-> got.final, replyA |-> got.replyB, replyB |-> got.replyA]
              \in SerialRuns(base, b, a)

----------------------------------------------------------------------------
(* Attendance model: schema defaults and the three pre('save') hooks *)

\* the single-active rule relates two records of an employee, so two _ids are served
AttIds == {1, 2}
WorkingFromInputs == {"office", "home", "bogus"}

NewAttendance(employee, workingFrom, office, t) ==
  [ employee    |-> employee,
    workingFrom |-> workingFrom,
    office      |-> IF workingFrom = "office" THEN office ELSE NullRef,
    clockIn     |-> t,
    clockOut    |-> Null,
    duration    |-> NullStr,
    isActive    |-> TRUE ]

AttDurationHook(doc) ==
  IF doc.clockIn # Null /\ doc.clockOut # Null
    THEN [doc EXCEPT !.duration = FormatDuration(doc.clockOut - doc.clockIn),
                     !.isActive = FALSE]
    ELSE doc

\* the enum validator of workingFrom and the office hook: TRUE when save() is refused
AttInvalid(doc) ==
  \/ doc.workingFrom \notin {"office", "home"}
  \/ doc.workingFrom = "office" /\ doc.office = NullRef

\* Attendance.findOne({ employee, isActive: true, _id: { $ne: self } })
ActiveOf(store, employee, self) ==
  {a \in DOMAIN store \ {self} : store[a].employee = employee /\ store[a].isActive}

\* mutant: the office is neither required nor looked up
CreateAttendanceCheck_NoOfficeCheck(store, employee, workingFrom, office) ==
  IF employee \notin DOMAIN users THEN "NotFound"
  ELSE IF {a \in DOMAIN store : store[a].employee = employee /\ store[a].isActive} # {}
    THEN "Conflict"
  ELSE "pass"

\* the checks of createAttendance before the document is built
CreateAttendanceCheck(store, employee, workingFrom, office) ==
  IF employee \notin DOMAIN users THEN "NotFound"
  ELSE IF workingFrom = "office" /\ office = NullRef THEN "Precondition"
  ELSE IF workingFrom = "office" /\ office \notin OfficeIds THEN "NotFound"
  ELSE IF ActiveOf(store, employee, 0) # {} THEN "Conflict"
  ELSE "pass"

\* the third hook, on a new active document
SingleActiveHook(store, doc, self) ==
  IF doc.isActive /\ ActiveOf(store, doc.employee, self) # {} THEN "Conflict" ELSE "pass"

\* Math.round(n / d) for d > 0: the nearest integer, a half rounds up
RoundDiv(n, d) == (2 * n + d) \div (2 * d)

\* mutant: the hundredths are cut off instead of rounded
workHours_Truncated(doc) ==
  IF doc.clockIn = Null \/ doc.clockOut = Null
    THEN 0
    ELSE ((doc.clockOut - doc.clockIn) * 100) \div MinutesPerHour

\* the workHours virtual, in hundredths of an hour
workHours(doc) ==
  IF doc.clockIn = Null \/ doc.clockOut = Null
    THEN 0
    ELSE RoundDiv((doc.clockOut - doc.clockIn) * 100, MinutesPerHour)

OvertimeHours == 8

\* the isOvertime virtual
isOvertime(doc) == workHours(doc) > OvertimeHours * 100

----------------------------------------------------------------------------
(* Attendance controller, each request served without interleaving *)

visitVars == <<users, visits, nextVisit, scen>>

createAttendance(employee, workingFrom, office) ==
  /\ nextAtt \in AttIds
  /\ \E t \in Times :
       LET check == CreateAttendanceCheck(attendance, employee, workingFrom, office)
           doc   == AttDurationHook(NewAttendance(employee, workingFrom, office, t))
           resp  == IF check # "pass" THEN check
                    ELSE IF AttInvalid(doc) THEN "Failed"
                    ELSE IF SingleActiveHook(attendance, doc, nextAtt) # "pass" THEN "Conflict"
                    ELSE "ok"
       IN /\ t >= now
          /\ IF resp = "ok"
               THEN /\ attendance' = attendance @@ (nextAtt :> doc)
                    /\ nextAtt' = nextAtt + 1
                    /\ now' = t
                    /\ last' = Served("createAttendance", nextAtt, "ok")
               ELSE /\ last' = Served("createAttendance", 0, resp)
                    /\ UNCHANGED <<attendance, nextAtt, now>>
  /\ UNCHANGED <<nUpdates, visitVars, raceVars, authVars, orgVars>>

\* the request bodies served, one key each
AttendancePatches ==
  { p \in [ isActive    : {"true", "false", Absent},
            clockIn     : Times \cup {AbsentDate},
            clockOut    : Times \cup {Null, AbsentDate},
            workingFrom : {"office", "home", "bogus", Absent},
            office      : OfficeIds \cup {NullRef, Absent} ] :
      Cardinality({f \in {"isActive", "workingFrom", "office"} : p[f] # Absent})
        + Cardinality({f \in {"clockIn", "clockOut"} : p[f] # AbsentDate}) = 1 }

ApplyAttendancePatch(doc, patch) ==
  [doc EXCEPT !.isActive    = IF patch.isActive = Absent THEN @ ELSE patch.isActive = "true",
              !.clockIn     = IF patch.clockIn = AbsentDate THEN @ ELSE patch.clockIn,
              !.clockOut    = IF patch.clockOut = AbsentDate THEN @ ELSE patch.clockOut,
              !.workingFrom = IF patch.workingFrom = Absent THEN @ ELSE patch.workingFrom,
              !.office      = IF patch.office = Absent THEN @ ELSE patch.office]

\* PATCH /api/attendance/:id : findByIdAndUpdate with $set, no save hook runs
updateAttendance(id, patch) ==
  /\ nUpdates < MaxUpdates
  /\ nUpdates' = nUpdates + 1
  /\ IF patch.workingFrom \notin {"office", "home", Absent}
       THEN /\ last' = Served("updateAttendance", id, "Failed")
            /\ UNCHANGED attendance
       ELSE IF id \notin DOMAIN attendance
         THEN /\ last' = Served("updateAttendance", id, "NotFound")
              /\ UNCHANGED attendance
         ELSE /\ attendance' = [attendance EXCEPT ![id] = ApplyAttendancePatch(@, patch)]
              /\ last' = Served("updateAttendance", id, "ok")
  /\ UNCHANGED <<now, nextAtt, visitVars, raceVars, authVars, orgVars>>

deleteAttendance(id) ==
  /\ IF id \notin DOMAIN attendance
       THEN /\ last' = Served("deleteAttendance", id, "NotFound")
            /\ UNCHANGED attendance
       ELSE /\ attendance' = [i \in DOMAIN attendance \ {id} |-> attendance[i]]
            /\ last' = Served("deleteAttendance", id, "ok")
  /\ UNCHANGED <<now, nextAtt, nUpdates, visitVars, raceVars, authVars, orgVars>>

\* attendance.clockOut = new Date(); await attendance.save()
ClockOutSave(op, id) ==
  \E t \in Times :
    LET doc == AttDurationHook([attendance[id] EXCEPT !.clockOut = t]) IN
    /\ t >= now
    /\ IF AttInvalid(doc)
         THEN /\ last' = Served(op, id, "Failed")
              /\ UNCHANGED <<attendance, now>>
         ELSE /\ attendance' = [attendance EXCEPT ![id] = SaveDoc(@, @, doc)]
              /\ now' = t
              /\ last' = Served(op, id, "ok")

clockOut(id) ==
  /\ IF id \notin DOMAIN attendance
       THEN /\ last' = Served("clockOut", id, "NotFound")
            /\ UNCHANGED <<attendance, now>>
       ELSE IF ~attendance[id].isActive
         THEN /\ last' = Served("clockOut", id, "NotActive")
              /\ UNCHANGED <<attendance, now>>
         ELSE IF attendance[id].clockOut # Null
           THEN /\ last' = Served("clockOut", id, "AlreadyDone")
                /\ UNCHANGED <<attendance, now>>
           ELSE ClockOutSave("clockOut", id)
  /\ UNCHANGED <<nextAtt, nUpdates, visitVars, raceVars, authVars, orgVars>>

\* findOne returns any one of the matching documents
clockOutByEmployee(employee) ==
  /\ IF ActiveOf(attendance, employee, 0) = {}
       THEN /\ last' = Served("clockOutByEmployee", 0, "NotFound")
            /\ UNCHANGED <<attendance, now>>
       ELSE \E id \in ActiveOf(attendance, employee, 0) :
              ClockOutSave("clockOutByEmployee", id)
  /\ UNCHANGED <<nextAtt, nUpdates, visitVars, raceVars, authVars, orgVars>>

----------------------------------------------------------------------------
(* GET /api/attendance/employee/:employeeId/summary.  A JavaScript number is *)
(* a record: a finite value, or NaN or Infinity out of a division by zero.   *)
(* Hours are counted in hundredths of an hour.                               *)

Num(v) == [kind |-> "num", val |-> v]
NaN == [kind |-> "NaN", val |-> 0]
Infinity == [kind |-> "Infinity", val |-> 0]

\* Math.round(a / b * scale) of two counts a >= 0, b >= 0
RoundedRatio(a, b, scale) ==
  IF b = 0 THEN (IF a = 0 THEN NaN ELSE Infinity) ELSE Num(RoundDiv(a * scale, b))

\* x || 0
OrZero(x) == IF x.kind = "NaN" \/ (x.kind = "num" /\ x.val = 0) THEN Num(0) ELSE x

RECURSIVE SumWorkHours(_, _)
SumWorkHours(store, ids) ==
  IF ids = {} THEN 0
  ELSE LET id == CHOOSE i \in ids : TRUE
       IN  workHours(store[id]) + SumWorkHours(store, ids \ {id})

NoRange == <<AbsentDate, AbsentDate>>
\* startDate and endDate: absent, or the bounds of one tick
DateRanges == {NoRange} \cup {<<t, t>> : t \in Times}

\* Attendance.find({ employee, clockIn: { $gte, $lte } })
Selected(store, employee, range) ==
  {a \in DOMAIN store :
     /\ store[a].employee = employee
     /\ range # NoRange => range[1] <= store[a].clockIn /\ store[a].clockIn <= range[2]}

\* mutant: the average is taken without testing for completed sessions
Summary_NoGuard(store, employee, range) ==
  LET records   == Selected(store, employee, range)
      completed == {a \in records : store[a].clockOut # Null}
      total     == SumWorkHours(store, completed)
      office    == Cardinality({a \in records : store[a].workingFrom = "office"})
      home      == Cardinality({a \in records : store[a].workingFrom = "home"})
  IN  [ totalSessions     |-> Num(Cardinality(records)),
        completedSessions |-> Num(Cardinality(completed)),
        activeSessions    |-> Num(Cardinality({a \in records : store[a].isActive})),
        totalWorkHours    |-> Num(total),
        averageWorkHours  |-> IF Cardinality(completed) = 0 THEN NaN
                              ELSE Num(RoundDiv(total, Cardinality(completed))),
        officeWorkDays    |-> Num(office),
        homeWorkDays      |-> Num(home),
        workPattern       |->
          [ office |-> OrZero(RoundedRatio(office, Cardinality(records), 100)),
            home   |-> OrZero(RoundedRatio(home, Cardinality(records), 100)) ] ]

Summary(store, employee, range) ==
  LET records   == Selected(store, employee, range)
      completed == {a \in records : store[a].clockOut # Null}
      total     == SumWorkHours(store, completed)
      office    == Cardinality({a \in records : store[a].workingFrom = "office"})
      home      == Cardinality({a \in records : store[a].workingFrom = "home"})
  IN  [ totalSessions     |-> Num(Cardinality(records)),
        completedSessions |-> Num(Cardinality(completed)),
        activeSessions    |-> Num(Cardinality({a \in records : store[a].isActive})),
        totalWorkHours    |-> Num(total),
        averageWorkHours  |-> IF Cardinality(completed) > 0
                                THEN Num(RoundDiv(total, Cardinality(completed)))
                                ELSE Num(0),
        officeWorkDays    |-> Num(office),
        homeWorkDays      |-> Num(home),
        workPattern       |->
          [ office |-> OrZero(RoundedRatio(office, Cardinality(records), 100)),
            home   |-> OrZero(RoundedRatio(home, Cardinality(records), 100)) ] ]

getEmployeeAttendanceSummary(employee, range) ==
  /\ last' = [ op |-> "summary", id |-> 0, resp |-> "ok",
               records |-> Selected(attendance, employee, range),
               summary |-> Summary(attendance, employee, range) ]
  /\ UNCHANGED <<now, attendance, nextAtt, nUpdates, visitVars, raceVars, authVars, orgVars>>

AttendanceNext ==
  \/ \E e \in UserIds \cup {MissingId}, w \in WorkingFromInputs,
        o \in OfficeIds \cup {NullRef, MissingId} : createAttendance(e, w, o)
  \/ \E id \in AttIds, p \in AttendancePatches : updateAttendance(id, p)
  \/ \E id \in AttIds : deleteAttendance(id)
  \/ \E id \in AttIds : clockOut(id)
  \/ \E e \in UserIds \cup {MissingId} : clockOutByEmployee(e)

\* every attendance route
SpecAttendance == Init /\ [][AttendanceNext]_vars

SummaryNext ==
  \/ AttendanceNext
  \/ \E e \in UserIds \cup {MissingId}, r \in DateRanges :
        getEmployeeAttendanceSummary(e, r)

\* every attendance route and the summary route
SpecSummary == Init /\ [][SummaryNext]_vars

----------------------------------------------------------------------------
(* Authentication: the JWT issued at login, the auth middleware in front of *)
(* every protected route, and the user routes that change who may pass it   *)

MaxTokens == 2

AuthUserIds == {"u1", "u2"}

\* what a request carries in its Authorization header: nothing, a token that
\* was issued (serial n), or a token made elsewhere, with a signature that
\* verifies or not
NoBearer == [userId |-> MissingId, n |-> 0, sig |-> "none"]

Bearers ==
  {NoBearer}
    \cup {[userId |-> tokens[n].userId, n |-> n, sig |-> "ok"] : n \in DOMAIN tokens}
    \cup {[userId |-> u, n |-> 0, sig |-> "bad"] : u \in AuthUserIds}
    \cup {[userId |-> MissingId, n |-> 0, sig |-> "ok"]}

\* jwt.verify: the signature matches and the 7 days have not passed
JwtVerifies(bearer) ==
  /\ bearer.sig = "ok"
  /\ bearer.n \in DOMAIN tokens => ~tokens[bearer.n].expired

\* mutant: the middleware does not look at active
Auth_NoActiveCheck(bearer) ==
  IF bearer.sig = "none" THEN "Unauthorized"
  ELSE IF ~JwtVerifies(bearer) THEN "Unauthorized"
  ELSE IF bearer.userId \notin DOMAIN users THEN "Unauthorized"
  ELSE "next"

\* the auth middleware
Auth(bearer) ==
  IF bearer.sig = "none" THEN "Unauthorized"
  ELSE IF ~JwtVerifies(bearer) THEN "Unauthorized"
  ELSE IF bearer.userId \notin DOMAIN users \/ users[bearer.userId].active = 0
    THEN "Unauthorized"
  ELSE "next"

\* the record of a login attempt and of a request to a protected route
Attempt(email, n, resp) == [op |-> "login", id |-> n, resp |-> resp, email |-> email]
Request(route, bearer, resp) == [op |-> route, id |-> bearer.n, resp |-> resp, bearer |-> bearer]

authFrame == <<now, visits, nextVisit, attendance, nextAtt, nUpdates, scen, reqs, base, orgVars>>

\* POST /api/users/login (public)
loginUser(email, passwordOk) ==
  /\ Cardinality(DOMAIN tokens) < MaxTokens
  /\ LET n == Cardinality(DOMAIN tokens) + 1 IN
       IF email \notin DOMAIN users \/ users[email].active # 1 \/ ~passwordOk
         THEN /\ last' = Attempt(email, 0, "Unauthorized")
              /\ UNCHANGED <<users, tokens>>
         ELSE /\ tokens' = tokens @@ (n :> [userId |-> email, expired |-> FALSE])
              /\ users' = [users EXCEPT ![email].token = n]
              /\ last' = Attempt(email, n, "ok")
  /\ UNCHANGED authFrame

\* the 7 days of a token pass
ExpireToken(n) ==
  /\ n \in DOMAIN tokens /\ ~tokens[n].expired
  /\ tokens' = [tokens EXCEPT ![n].expired = TRUE]
  /\ UNCHANGED <<users, last>>
  /\ UNCHANGED authFrame

ProtectedRoutes == {"deleteUser", "updateUser", "logout", "getAllVisits"}
ActiveInputs == {0, 1}
PhoneInputs == {"0810"}

\* the bodies of PATCH /api/users/:id; the other routes read no body
NoBody == <<>>
UserPatches ==
  {[active |-> a] : a \in ActiveInputs} \cup {[phone |-> p] : p \in PhoneInputs}

\* { $set: updates }
ApplyUserPatch(doc, patch) ==
  [k \in DOMAIN doc |-> IF k \in DOMAIN patch THEN patch[k] ELSE doc[k]]

\* PATCH /api/users/:id: findByIdAndUpdate, then the test of what it returned
updateUser(target, patch) ==
  IF target \notin DOMAIN users
    THEN [resp |-> "NotFound", users |-> users]
    ELSE LET user == ApplyUserPatch(users[target], patch) IN
         [resp  |-> IF user.active = 0 THEN "NotFound" ELSE "ok",
          users |-> [users EXCEPT ![target] = user]]

\* the handler behind the middleware, run for the user the token names
Handler(route, caller, target, patch) ==
  CASE route = "deleteUser" ->
         IF target \notin DOMAIN users
           THEN [resp |-> "NotFound", users |-> users]
           ELSE [resp |-> "ok", users |-> [users EXCEPT ![target].active = 0]]
    [] route = "updateUser" -> updateUser(target, patch)
    [] route = "logout" ->
         [resp |-> "ok", users |-> [users EXCEPT ![caller].token = Null]]
    [] route = "getAllVisits" ->
         [resp |-> "ok", users |-> users]

\* a request to a protected route: router.<method>(path, auth, handler)
Protected(bearer, route, target, patch) ==
  /\ IF Auth(bearer) # "next"
       THEN /\ last' = Request(route, bearer, "Unauthorized")
            /\ UNCHANGED users
       ELSE LET out == Handler(route, bearer.userId, target, patch) IN
            /\ users' = out.users
            /\ last' = Request(route, bearer, out.resp)
  /\ UNCHANGED tokens
  /\ UNCHANGED authFrame

InitAuth ==
  /\ now = 0
  /\ users = [u \in AuthUserIds |-> NewUser]
  /\ visits = EmptyStore
  /\ nextVisit = 1
  /\ attendance = EmptyStore
  /\ nextAtt = 1
  /\ nUpdates = 0
  /\ last = NoRequest
  /\ scen = EmptyStore
  /\ reqs = EmptyStore
  /\ base = NoDoc
  /\ tokens = EmptyStore
  /\ cards = EmptyStore
  /\ nextCard = 1
  /\ offices = EmptyStore
  /\ companies = [c \in CompanyIds |-> NewCompany]

AuthNext ==
  \/ \E e \in AuthUserIds \cup {MissingId}, ok \in BOOLEAN : loginUser(e, ok)
  \/ \E n \in 1..MaxTokens : ExpireToken(n)
  \/ \E b \in Bearers, t \in AuthUserIds \cup {MissingId}, p \in UserPatches :
       Protected(b, "updateUser", t, p)
  \/ \E b \in Bearers, t \in AuthUserIds \cup {MissingId} :
       Protected(b, "deleteUser", t, NoBody)
  \/ \E b \in Bearers, r \in ProtectedRoutes \ {"updateUser", "deleteUser"} :
       Protected(b, r, b.userId, NoBody)

SpecAuth == InitAuth /\ [][AuthNext]_vars

----------------------------------------------------------------------------
(* The duration written at clock-out, minute by minute: a visit in progress *)
(* and an attendance session that started in the same minute are each       *)
(* clocked out through their route, in the same minute                      *)

MaxClockIn == 1
MaxDelta == 510

ClockIns == 0..MaxClockIn

InitDuration ==
  \E a \in ClockIns, u \in UserIds :
    /\ now = a
    /\ users = [v \in UserIds |-> [NewUser EXCEPT !.visits = IF v = u THEN <<1>> ELSE <<>>]]
    /\ visits = (1 :> [NewVisit(u, u, NullStr, NullRef) EXCEPT
                         !.clockIn = a, !.status = "in_progress"])
    /\ nextVisit = 2
    /\ attendance = (1 :> NewAttendance(u, "home", NullRef, a))
    /\ nextAtt = 2
    /\ nUpdates = 0
    /\ last = NoRequest
    /\ scen = (1 :> ScenarioOff)
    /\ reqs = EmptyStore
    /\ base = NoDoc
    /\ tokens = EmptyStore
    /\ cards = EmptyStore
    /\ nextCard = 1
    /\ offices = EmptyStore
    /\ companies = [c \in CompanyIds |-> NewCompany]

\* new Date() of a clock-out: within MaxDelta minutes of the clock-in, and the
\* minute of the other clock-out when that one was served first
ClockOutMinutes(clockIn, other) ==
  IF other # Null THEN {other} ELSE clockIn..(clockIn + MaxDelta)

\* PATCH /api/visits/:id/clock-out served at minute t
clockOutVisitorAt(id, t) ==
  /\ id \in DOMAIN visits /\ id \in DOMAIN attendance
  /\ t >= now /\ t \in ClockOutMinutes(visits[id].clockIn, attendance[id].clockOut)
  /\ LET out == ClockOutOutcome(visits[id], t) IN
       /\ visits' = [visits EXCEPT ![id] = SaveDoc(@, @, out.doc)]
       /\ now' = IF out.resp = "ok" THEN t ELSE now
       /\ last' = Served("clockOut", id, out.resp)
  /\ UNCHANGED <<users, nextVisit, nUpdates, scen, attVars, raceVars, authVars, orgVars>>

\* PATCH /api/attendance/:id/clock-out served at minute t
clockOutAt(id, t) ==
  /\ id \in DOMAIN attendance /\ id \in DOMAIN visits
  /\ t >= now /\ t \in ClockOutMinutes(attendance[id].clockIn, visits[id].clockOut)
  /\ LET doc == AttDurationHook([attendance[id] EXCEPT !.clockOut = t]) IN
       IF ~attendance[id].isActive
         THEN /\ last' = Served("clockOut", id, "NotActive")
              /\ UNCHANGED <<attendance, now>>
         ELSE IF attendance[id].clockOut # Null
           THEN /\ last' = Served("clockOut", id, "AlreadyDone")
                /\ UNCHANGED <<attendance, now>>
           ELSE IF AttInvalid(doc)
             THEN /\ last' = Served("clockOut", id, "Failed")
                  /\ UNCHANGED <<attendance, now>>
             ELSE /\ attendance' = [attendance EXCEPT ![id] = SaveDoc(@, @, doc)]
                  /\ now' = t
                  /\ last' = Served("clockOut", id, "ok")
  /\ UNCHANGED <<nextAtt, nUpdates, visitVars, raceVars, authVars, orgVars>>

DurationNext ==
  \/ \E t \in 0..(MaxClockIn + MaxDelta) : clockOutVisitorAt(1, t)
  \/ \E t \in 0..(MaxClockIn + MaxDelta) : clockOutAt(1, t)

SpecDuration == InitDuration /\ [][DurationNext]_vars

----------------------------------------------------------------------------
(* createAttendance, requests interleaved at their awaits: the findOne of   *)
(* the controller, the findOne of the third save hook, the insert, and the  *)
(* findById that builds the answer                                          *)

\* User.findById, Office.findById, Attendance.findOne; then new Attendance(...)
\* and the two synchronous hooks of save()
CheckAttendance(r, employee, workingFrom, office) ==
  /\ r \notin DOMAIN reqs
  /\ nextAtt \in AttIds
  /\ \E t \in Times :
       LET check == CreateAttendanceCheck(attendance, employee, workingFrom, office)
           doc   == AttDurationHook(NewAttendance(employee, workingFrom, office, t))
       IN /\ t >= now
          /\ IF check # "pass" \/ AttInvalid(doc)
               THEN /\ last' = Served("createAttendance", 0,
                                       IF check # "pass" THEN check ELSE "Failed")
                    /\ UNCHANGED <<reqs, nextAtt, now>>
               ELSE /\ reqs' = reqs @@ (r :> [op |-> "createAttendance", id |-> nextAtt,
                                               doc |-> doc, pc |-> "hook"])
                    /\ nextAtt' = nextAtt + 1
                    /\ now' = t
                    /\ UNCHANGED last
  /\ UNCHANGED <<attendance, nUpdates, base, visitVars, authVars, orgVars>>

\* the third pre('save') hook: await this.constructor.findOne(...)
HookAttendance(r) ==
  /\ r \in DOMAIN reqs /\ reqs[r].pc = "hook"
  /\ IF SingleActiveHook(attendance, reqs[r].doc, reqs[r].id) # "pass"
       THEN /\ reqs' = [q \in DOMAIN reqs \ {r} |-> reqs[q]]
            /\ last' = Served("createAttendance", 0, "Conflict")
       ELSE /\ reqs' = [reqs EXCEPT ![r].pc = "insert"]
            /\ UNCHANGED last
  /\ UNCHANGED <<now, attendance, nextAtt, nUpdates, base, visitVars, authVars, orgVars>>

\* the insert that save() issues for a new document
InsertAttendance(r) ==
  /\ r \in DOMAIN reqs /\ reqs[r].pc = "insert"
  /\ attendance' = attendance @@ (reqs[r].id :> reqs[r].doc)
  /\ reqs' = [reqs EXCEPT ![r].pc = "respond"]
  /\ UNCHANGED <<now, nextAtt, nUpdates, last, base, visitVars, authVars, orgVars>>

\* res.status(201).json({ attendance: await Attendance.findById(attendance._id) })
RespondAttendance(r) ==
  /\ r \in DOMAIN reqs /\ reqs[r].pc = "respond"
  /\ reqs' = [q \in DOMAIN reqs \ {r} |-> reqs[q]]
  /\ last' = Served("createAttendance", reqs[r].id, "ok")
  /\ UNCHANGED <<now, attendance, nextAtt, nUpdates, base, visitVars, authVars, orgVars>>

AttendanceRaceNext ==
  \/ \E r \in ReqIds, e \in UserIds \cup {MissingId}, w \in WorkingFromInputs,
        o \in OfficeIds \cup {NullRef, MissingId} : CheckAttendance(r, e, w, o)
  \/ \E r \in ReqIds : HookAttendance(r)
  \/ \E r \in ReqIds : InsertAttendance(r)
  \/ \E r \in ReqIds : RespondAttendance(r)
  \/ \E e \in UserIds : clockOutByEmployee(e)

SpecAttendanceRace == Init /\ [][AttendanceRaceNext]_vars

----------------------------------------------------------------------------
(* The two clock-out routes of a session, requests interleaved at their     *)
(* awaits: the findById or findOne, the save, and the findById that builds  *)
(* the answer                                                               *)

\* sessions are opened before the clock-out requests arrive
ClockOutRaceSetup ==
  /\ reqs = EmptyStore
  /\ \E e \in UserIds, w \in {"office", "home"}, o \in OfficeIds \cup {NullRef} :
        createAttendance(e, w, o)

\* what a clock-out request holds after its read: the checks of the handler,
\* then attendance.clockOut = new Date() and the synchronous save hooks
ClockOutRead(op, id, t) ==
  IF id \notin DOMAIN attendance
    THEN [op |-> op, id |-> id, loaded |-> NoDoc, edited |-> NoDoc,
          pc |-> "done", resp |-> "NotFound"]
  ELSE IF op = "clockOut" /\ ~attendance[id].isActive
    THEN [op |-> op, id |-> id, loaded |-> NoDoc, edited |-> NoDoc,
          pc |-> "done", resp |-> "NotActive"]
  ELSE IF op = "clockOut" /\ attendance[id].clockOut # Null
    THEN [op |-> op, id |-> id, loaded |-> NoDoc, edited |-> NoDoc,
          pc |-> "done", resp |-> "AlreadyDone"]
  ELSE [op |-> op, id |-> id, loaded |-> attendance[id],
        edited |-> AttDurationHook([attendance[id] EXCEPT !.clockOut = t]),
        pc |-> "save", resp |-> "pending"]

\* await Attendance.findById(req.params.id)
ReadClockOut(r, id) ==
  /\ r \notin DOMAIN reqs
  /\ \E t \in Times :
       /\ t >= now
       /\ reqs' = reqs @@ (r :> ClockOutRead("clockOut", id, t))
       /\ now' = IF reqs'[r].pc = "save" THEN t ELSE now
  /\ UNCHANGED <<attendance, nextAtt, nUpdates, last, base, visitVars, authVars, orgVars>>

\* await Attendance.findOne({ employee, isActive: true })
ReadClockOutByEmployee(r, employee) ==
  /\ r \notin DOMAIN reqs
  /\ IF ActiveOf(attendance, employee, 0) = {}
       THEN /\ reqs' = reqs @@ (r :> ClockOutRead("clockOutByEmployee", 0, now))
            /\ UNCHANGED now
       ELSE \E id \in ActiveOf(attendance, employee, 0), t \in Times :
              /\ t >= now
              /\ reqs' = reqs @@ (r :> ClockOutRead("clockOutByEmployee", id, t))
              /\ now' = t
  /\ UNCHANGED <<attendance, nextAtt, nUpdates, last, base, visitVars, authVars, orgVars>>

\* await attendance.save()
SaveClockOut(r) ==
  /\ r \in DOMAIN reqs /\ reqs[r].pc = "save"
  /\ IF AttInvalid(reqs[r].edited)
       THEN /\ reqs' = [reqs EXCEPT ![r].pc = "done", ![r].resp = "Failed"]
            /\ UNCHANGED attendance
       ELSE /\ attendance' = [attendance EXCEPT ![reqs[r].id] =
                                 SaveDoc(@, reqs[r].loaded, reqs[r].edited)]
            /\ reqs' = [reqs EXCEPT ![r].pc = "respond"]
  /\ UNCHANGED <<now, nextAtt, nUpdates, last, base, visitVars, authVars, orgVars>>

\* res.json({ attendance: await Attendance.findById(attendance._id) })
RespondClockOut(r) ==
  /\ r \in DOMAIN reqs /\ reqs[r].pc = "respond"
  /\ reqs' = [reqs EXCEPT ![r].pc = "done", ![r].resp = "ok"]
  /\ UNCHANGED <<now, attendance, nextAtt, nUpdates, last, base, visitVars, authVars, orgVars>>

ClockOutRaceNext ==
  \/ ClockOutRaceSetup
  \/ \E r \in ReqIds, id \in AttIds : ReadClockOut(r, id)
  \/ \E r \in ReqIds, e \in UserIds \cup {MissingId} : ReadClockOutByEmployee(r, e)
  \/ \E r \in ReqIds : SaveClockOut(r)
  \/ \E r \in ReqIds : RespondClockOut(r)

SpecClockOutRace == Init /\ [][ClockOutRaceNext]_vars

----------------------------------------------------------------------------
(* Service cards: the controller's four writing routes, each request served *)
(* without interleaving                                                     *)

MaxCards == 2

cardFrame ==
  <<now, visits, nextVisit, attendance, nextAtt, nUpdates, scen, reqs, base, tokens,
    offices, companies>>

\* the service cards a findOne({ user, company, isActive: true }) can return
ActiveCards(user, company) ==
  {id \in DOMAIN cards :
     cards[id].user = user /\ cards[id].company = company /\ cards[id].isActive}

\* POST /api/service-cards
createServiceCard(user, company) ==
  /\ nextCard <= MaxCards
  /\ IF user \notin DOMAIN users \/ company \notin DOMAIN companies
       THEN /\ last' = [op |-> "createServiceCard", id |-> 0, resp |-> "NotFound"]
            /\ UNCHANGED <<users, cards, nextCard>>
       ELSE IF ActiveCards(user, company) # {}
       THEN /\ last' = [op |-> "createServiceCard", id |-> 0, resp |-> "AlreadyActive"]
            /\ UNCHANGED <<users, cards, nextCard>>
       ELSE /\ cards' = cards @@ (nextCard :> [user |-> user, company |-> company, isActive |-> TRUE])
            /\ users' = [users EXCEPT ![user].serviceCard = nextCard]
            /\ nextCard' = nextCard + 1
            /\ last' = [op |-> "createServiceCard", id |-> nextCard, resp |-> "ok"]
  /\ UNCHANGED cardFrame

\* PATCH /api/service-cards/:id/toggle-status
toggleServiceCardStatus(id) ==
  /\ IF id \notin DOMAIN cards
       THEN /\ last' = [op |-> "toggleServiceCardStatus", id |-> id, resp |-> "NotFound"]
            /\ UNCHANGED cards
       ELSE /\ cards' = [cards EXCEPT ![id].isActive = ~@]
            /\ last' = [op |-> "toggleServiceCardStatus", id |-> id, resp |-> "ok"]
  /\ UNCHANGED <<users, nextCard>>
  /\ UNCHANGED cardFrame

\* the bodies of PATCH /api/service-cards/:id
CardPatches ==
  {[isActive |-> b] : b \in BOOLEAN} \cup {[company |-> c] : c \in CompanyIds}

\* { $set: updates }
ApplyCardPatch(doc, patch) ==
  [k \in DOMAIN doc |-> IF k \in DOMAIN patch THEN patch[k] ELSE doc[k]]

\* PATCH /api/service-cards/:id
updateServiceCard(id, patch) ==
  /\ IF id \notin DOMAIN cards
       THEN /\ last' = [op |-> "updateServiceCard", id |-> id, resp |-> "NotFound"]
            /\ UNCHANGED cards
       ELSE /\ cards' = [cards EXCEPT ![id] = ApplyCardPatch(@, patch)]
            /\ last' = [op |-> "updateServiceCard", id |-> id, resp |-> "ok"]
  /\ UNCHANGED <<users, nextCard>>
  /\ UNCHANGED cardFrame

\* DELETE /api/service-cards/:id
deleteServiceCard(id) ==
  /\ IF id \notin DOMAIN cards
       THEN /\ last' = [op |-> "deleteServiceCard", id |-> id, resp |-> "NotFound"]
            /\ UNCHANGED <<users, cards>>
       ELSE /\ cards' = [i \in DOMAIN cards \ {id} |-> cards[i]]
            /\ users' = [users EXCEPT ![cards[id].user].serviceCard = Null]
            /\ last' = [op |-> "deleteServiceCard", id |-> id, resp |-> "ok"]
  /\ UNCHANGED nextCard
  /\ UNCHANGED cardFrame

CardIds == 1..MaxCards

CardNext ==
  \/ \E u \in UserIds \cup {MissingId}, c \in CompanyIds \cup {MissingId} :
       createServiceCard(u, c)
  \/ \E id \in CardIds : toggleServiceCardStatus(id)
  \/ \E id \in CardIds, p \in CardPatches : updateServiceCard(id, p)
  \/ \E id \in CardIds : deleteServiceCard(id)

SpecCards == Init /\ [][CardNext]_vars

----------------------------------------------------------------------------
(* Offices: capacity and occupancy.  createOffice, updateOccupancy and the  *)
(* generic PATCH, each request served without interleaving                  *)

MaxOffices == 1
MaxCapacity == 2

DefaultCapacity == 50
MinCapacity == 1
MinOccupancy == 0

Undefined == -2

CapacityInputs == {Undefined} \cup 0..MaxCapacity
OccupancyInputs == -1..(MaxCapacity + 1)

officeFrame ==
  <<now, users, visits, nextVisit, attendance, nextAtt, nUpdates, scen, reqs, base, tokens,
    cards, nextCard>>

\* the schema validators of capacity and currentOccupancy
OfficeValid(doc) ==
  doc.capacity >= MinCapacity /\ doc.currentOccupancy >= MinOccupancy

\* pre('save'): the current occupancy does not exceed the capacity
OccupancyHook(doc) == ~(doc.currentOccupancy > doc.capacity)

\* office.save(): the validators, then the hook
OfficeSaves(doc) == OfficeValid(doc) /\ OccupancyHook(doc)

\* POST /api/offices
createOffice(capacity, company) ==
  /\ Cardinality(DOMAIN offices) < MaxOffices
  /\ LET id == Cardinality(DOMAIN offices) + 1
         office == [capacity |-> IF capacity = Undefined THEN DefaultCapacity ELSE capacity,
                    currentOccupancy |-> 0, company |-> company]
     IN  IF company \notin DOMAIN companies
           THEN /\ last' = [op |-> "createOffice", id |-> 0, resp |-> "NotFound"]
                /\ UNCHANGED <<offices, companies>>
         ELSE IF ~OfficeSaves(office)
           THEN /\ last' = [op |-> "createOffice", id |-> 0, resp |-> "Failed"]
                /\ UNCHANGED <<offices, companies>>
         ELSE /\ offices' = offices @@ (id :> office)
              /\ companies' = [companies EXCEPT ![company].office = Append(@, id)]
              /\ last' = [op |-> "createOffice", id |-> id, resp |-> "ok"]
  /\ UNCHANGED officeFrame

\* PATCH /api/offices/:id/occupancy
updateOccupancy(id, currentOccupancy) ==
  /\ IF id \notin DOMAIN offices
       THEN /\ last' = [op |-> "updateOccupancy", id |-> id, resp |-> "NotFound"]
            /\ UNCHANGED offices
       ELSE IF currentOccupancy > offices[id].capacity
       THEN /\ last' = [op |-> "updateOccupancy", id |-> id, resp |-> "Exceeds"]
            /\ UNCHANGED offices
       ELSE IF ~OfficeSaves([offices[id] EXCEPT !.currentOccupancy = currentOccupancy])
       THEN /\ last' = [op |-> "updateOccupancy", id |-> id, resp |-> "Failed"]
            /\ UNCHANGED offices
       ELSE /\ offices' = [offices EXCEPT ![id].currentOccupancy = currentOccupancy]
            /\ last' = [op |-> "updateOccupancy", id |-> id, resp |-> "ok"]
  /\ UNCHANGED companies
  /\ UNCHANGED officeFrame

\* the bodies of PATCH /api/offices/:id
OfficePatches ==
  {[capacity |-> c] : c \in 0..MaxCapacity}
    \cup {[currentOccupancy |-> n] : n \in OccupancyInputs}

\* { $set: updates } with runValidators: each path of the patch is validated
\* alone, and no pre('save') hook runs
ApplyOfficePatch(doc, patch) ==
  [k \in DOMAIN doc |-> IF k \in DOMAIN patch THEN patch[k] ELSE doc[k]]

\* PATCH /api/offices/:id
updateOffice(id, patch) ==
  /\ IF id \notin DOMAIN offices
       THEN /\ last' = [op |-> "updateOffice", id |-> id, resp |-> "NotFound"]
            /\ UNCHANGED offices
       ELSE IF ~OfficeValid(ApplyOfficePatch(offices[id], patch))
       THEN /\ last' = [op |-> "updateOffice", id |-> id, resp |-> "Failed"]
            /\ UNCHANGED offices
       ELSE /\ offices' = [offices EXCEPT ![id] = ApplyOfficePatch(@, patch)]
            /\ last' = [op |-> "updateOffice", id |-> id, resp |-> "ok"]
  /\ UNCHANGED companies
  /\ UNCHANGED officeFrame

OfficeStoreIds == 1..MaxOffices

OfficeNext ==
  \/ \E c \in CapacityInputs, co \in CompanyIds \cup {MissingId} : createOffice(c, co)
  \/ \E id \in OfficeStoreIds, n \in OccupancyInputs : updateOccupancy(id, n)
  \/ \E id \in OfficeStoreIds, p \in OfficePatches : updateOffice(id, p)

SpecOffices == Init /\ [][OfficeNext]_vars

----------------------------------------------------------------------------
(* Companies and their employees: addEmployee and removeEmployee, each      *)
(* request served without interleaving                                      *)

companyFrame ==
  <<now, visits, nextVisit, attendance, nextAtt, nUpdates, scen, reqs, base, tokens,
    cards, nextCard, offices>>

Includes(seq, x) == \E i \in 1..Len(seq) : seq[i] = x

\* array.filter(id => id.toString() !== employeeId)
Without(seq, x) == SelectSeq(seq, LAMBDA y : y # x)

\* PATCH /api/companies/:id/add-employee
addEmployee(companyId, employeeId, isAdmin) ==
  /\ IF companyId \notin DOMAIN companies \/ employeeId \notin DOMAIN users
       THEN /\ last' = [op |-> "addEmployee", id |-> 0, resp |-> "NotFound",
                        company |-> companyId, employee |-> employeeId]
            /\ UNCHANGED <<users, companies>>
       ELSE LET company == companies[companyId]
                admin == IF isAdmin /\ ~Includes(company.admin, employeeId)
                           THEN Append(company.admin, employeeId) ELSE company.admin
                employee == IF ~Includes(company.employee, employeeId)
                              THEN Append(company.employee, employeeId)
                              ELSE company.employee
            IN  /\ companies' = [companies EXCEPT ![companyId].admin = admin,
                                                  ![companyId].employee = employee]
                /\ users' = [users EXCEPT ![employeeId].employer = companyId]
                /\ last' = [op |-> "addEmployee", id |-> 0, resp |-> "ok",
                            company |-> companyId, employee |-> employeeId]
  /\ UNCHANGED companyFrame

\* PATCH /api/companies/:id/remove-employee
removeEmployee(companyId, employeeId) ==
  /\ IF companyId \notin DOMAIN companies
       THEN /\ last' = [op |-> "removeEmployee", id |-> 0, resp |-> "NotFound",
                        company |-> companyId, employee |-> employeeId]
            /\ UNCHANGED <<users, companies>>
       ELSE /\ companies' = [companies EXCEPT
                               ![companyId].admin = Without(@, employeeId),
                               ![companyId].employee = Without(@, employeeId)]
            /\ users' = IF employeeId \in DOMAIN users
                          THEN [users EXCEPT ![employeeId].employer = NullRef]
                          ELSE users
            /\ last' = [op |-> "removeEmployee", id |-> 0, resp |-> "ok",
                        company |-> companyId, employee |-> employeeId]
  /\ UNCHANGED companyFrame

InitCompanies ==
  /\ now = 0
  /\ users = [u \in AuthUserIds |-> NewUser]
  /\ visits = EmptyStore
  /\ nextVisit = 1
  /\ attendance = EmptyStore
  /\ nextAtt = 1
  /\ nUpdates = 0
  /\ last = NoRequest
  /\ scen = EmptyStore
  /\ reqs = EmptyStore
  /\ base = NoDoc
  /\ tokens = EmptyStore
  /\ cards = EmptyStore
  /\ nextCard = 1
  /\ offices = EmptyStore
  /\ companies = [c \in CompanyIds |-> NewCompany]

CompanyNext ==
  \/ \E c \in CompanyIds \cup {MissingId}, e \in AuthUserIds \cup {MissingId}, a \in BOOLEAN :
       addEmployee(c, e, a)
  \/ \E c \in CompanyIds \cup {MissingId}, e \in AuthUserIds \cup {MissingId} :
       removeEmployee(c, e)

SpecCompanies == InitCompanies /\ [][CompanyNext]_vars

----------------------------------------------------------------------------
(* The visits array of a user: createVisit and deleteVisit interleaved at   *)
(* their awaits, the write of the visit and the write of the user, with the *)
(* generic PATCH, which may name another visitor                            *)

ListVisitIds == {1, 2}

\* the bodies of PATCH /api/visits/:id that name a visitor
VisitorPatches ==
  {[status |-> Absent, clockIn |-> AbsentDate, clockOut |-> AbsentDate, visitor |-> u] :
     u \in AuthUserIds}

listFrame == <<now, nUpdates, last, base, attVars, authVars, orgVars>>

\* createVisit up to await visit.save()
SaveNewVisit(r, visitor, employee) ==
  /\ r \notin DOMAIN reqs
  /\ nextVisit \in ListVisitIds
  /\ IF visitor \notin DOMAIN users \/ employee \notin DOMAIN users
       THEN /\ reqs' = reqs @@ (r :> [op |-> "createVisit", id |-> 0, visitor |-> visitor,
                                      pc |-> "done", resp |-> "NotFound"])
            /\ UNCHANGED <<visits, nextVisit, scen>>
       ELSE /\ visits' = visits @@ (nextVisit :>
                            VisitPreSave(NewVisit(visitor, employee, NullStr, NullRef)))
            /\ scen' = scen @@ (nextVisit :> ScenarioStart)
            /\ nextVisit' = nextVisit + 1
            /\ reqs' = reqs @@ (r :> [op |-> "createVisit", id |-> nextVisit,
                                      visitor |-> visitor, pc |-> "push", resp |-> "pending"])
  /\ UNCHANGED users
  /\ UNCHANGED listFrame

\* await User.findByIdAndUpdate(visitor, { $push: { visits: visit._id } })
PushVisit(r) ==
  /\ r \in DOMAIN reqs /\ reqs[r].pc = "push"
  /\ users' = [users EXCEPT ![reqs[r].visitor].visits = Append(@, reqs[r].id)]
  /\ reqs' = [reqs EXCEPT ![r].pc = "done", ![r].resp = "ok"]
  /\ UNCHANGED <<visits, nextVisit, scen>>
  /\ UNCHANGED listFrame

\* await Visit.findByIdAndDelete(req.params.id)
FindAndDeleteVisit(r, id) ==
  /\ r \notin DOMAIN reqs
  /\ IF id \notin DOMAIN visits
       THEN /\ reqs' = reqs @@ (r :> [op |-> "deleteVisit", id |-> id, visitor |-> MissingId,
                                      pc |-> "done", resp |-> "NotFound"])
            /\ UNCHANGED <<visits, scen>>
       ELSE /\ visits' = [i \in DOMAIN visits \ {id} |-> visits[i]]
            /\ scen' = [i \in DOMAIN scen \ {id} |-> scen[i]]
            /\ reqs' = reqs @@ (r :> [op |-> "deleteVisit", id |-> id,
                                      visitor |-> visits[id].visitor,
                                      pc |-> "pull", resp |-> "pending"])
  /\ UNCHANGED <<users, nextVisit>>
  /\ UNCHANGED listFrame

\* await User.findByIdAndUpdate(visit.visitor, { $pull: { visits: visit._id } })
PullVisit(r) ==
  /\ r \in DOMAIN reqs /\ reqs[r].pc = "pull"
  /\ users' = [users EXCEPT ![reqs[r].visitor].visits =
                               SelectSeq(@, LAMBDA v : v # reqs[r].id)]
  /\ reqs' = [reqs EXCEPT ![r].pc = "done", ![r].resp = "ok"]
  /\ UNCHANGED <<visits, nextVisit, scen>>
  /\ UNCHANGED listFrame

\* two users and no visit yet
InitVisitList == InitCompanies

VisitListNext ==
  \/ \E r \in ReqIds, v \in AuthUserIds \cup {MissingId}, e \in AuthUserIds :
       SaveNewVisit(r, v, e)
  \/ \E r \in ReqIds : PushVisit(r)
  \/ \E r \in ReqIds, id \in ListVisitIds : FindAndDeleteVisit(r, id)
  \/ \E r \in ReqIds : PullVisit(r)
  \/ \E id \in ListVisitIds, p \in VisitorPatches : updateVisit(id, p)

SpecVisitList == InitVisitList /\ [][VisitListNext]_vars

----------------------------------------------------------------------------
(* Properties of the visit routes *)

LegalTransitions ==
  { <<"pending", "accepted">>, <<"accepted", "in_progress">>,
    <<"in_progress", "completed">>, <<"pending", "cancelled">>,
    <<"accepted", "cancelled">> }

IsLifecycleStep == last'.op \in LifecycleOps /\ last'.id \in DOMAIN visits

\* C2: every change of a visit's status made by accept, cancel, clockIn or
\* clockOut is one of the five transitions of the lifecycle graph
C2_OnlyLegalTransitions ==
  [][ IsLifecycleStep /\ visits'[last'.id].status # visits[last'.id].status
        => <<visits[last'.id].status, visits'[last'.id].status>> \in LegalTransitions ]_vars

\* C3: a visit whose clockOut is set has clockIn set, and clockIn <= clockOut
C3_ClockOutImpliesClockIn ==
  \A id \in DOMAIN visits :
    visits[id].clockOut # Null =>
      visits[id].clockIn # Null /\ visits[id].clockIn <= visits[id].clockOut

C7_ClockIn ==
  [][ last'.op = "clockIn" /\ last'.id \in DOMAIN visits =>
        LET d == visits[last'.id]  e == visits'[last'.id] IN
        IF d.status = "accepted" /\ d.clockIn = Null
          THEN /\ last'.resp = "ok"
               /\ e = [d EXCEPT !.clockIn = now', !.status = "in_progress"]
          ELSE /\ last'.resp = IF d.status # "accepted" THEN "InvalidState" ELSE "AlreadyDone"
               /\ e = d ]_vars

\* C8: clockOut on a visit whose clockIn is unset answers Precondition, on a
\* clocked-in visit whose clockOut is set it answers AlreadyDone; either way
\* status, clockIn, clockOut and duration stay as they were
C8_ClockOutRejected ==
  [][ last'.op = "clockOut" /\ last'.id \in DOMAIN visits =>
        LET d == visits[last'.id]  e == visits'[last'.id]
            same == /\ e.status = d.status /\ e.clockIn = d.clockIn
                    /\ e.clockOut = d.clockOut /\ e.duration = d.duration
        IN /\ d.clockIn = Null => last'.resp = "Precondition" /\ same
           /\ d.clockIn # Null /\ d.clockOut # Null =>
                last'.resp = "AlreadyDone" /\ same ]_vars

C8_Witness ==
  /\ last.op = "clockOut" /\ last.resp = "AlreadyDone"
  /\ last.id \in DOMAIN visits /\ visits[last.id].clockOut # Null

\* C9: cancel on a completed visit answers InvalidState and leaves status,
\* comment, clockIn, clockOut and duration as they were
C9_CancelCompleted ==
  [][ /\ last'.op = "cancel" /\ last'.id \in DOMAIN visits
      /\ visits[last'.id].status = "completed"
      => /\ last'.resp = "InvalidState"
         /\ visits'[last'.id] = visits[last'.id] ]_vars

C9_Witness ==
  /\ last.op = "cancel" /\ last.resp = "InvalidState"
  /\ last.id \in DOMAIN visits /\ visits[last.id].status = "completed"

ScenarioStatus == <<"accepted", "in_progress", "completed">>

\* C10: a new visit driven accept, clockIn, clockOut is answered success at each
\* step with status accepted, in_progress, completed; after the clockOut the
\* stored visit is completed with clockIn, clockOut and a duration
C10_Scenario ==
  \A id \in DOMAIN scen :
    scen[id].on =>
      /\ \A k \in 1..Len(scen[id].steps) :
           /\ scen[id].steps[k].resp = "ok"
           /\ scen[id].steps[k].status = ScenarioStatus[k]
      /\ Len(scen[id].steps) = Len(Scenario) =>
           /\ visits[id].status = "completed"
           /\ visits[id].clockIn # Null /\ visits[id].clockOut # Null
           /\ visits[id].duration # NullStr

C10_Witness ==
  \E id \in DOMAIN scen : scen[id].on /\ Len(scen[id].steps) = Len(Scenario)

\* the request bodies of POST /api/visits that the model serves
CreateVisitInputs ==
  (UserIds \cup {MissingId}) \X (UserIds \cup {MissingId}) \X CommentInputs
    \X (OfficeIds \cup {NullRef, MissingId})

C15_SecondaryWriteFails ==
  [][ \A i \in CreateVisitInputs :
        last'.op = "createVisit" /\ createVisitFault(i[1], i[2], i[3], i[4], "push") =>
          /\ last'.resp = "Failed"
          /\ DOMAIN visits' = DOMAIN visits \cup {nextVisit}
          /\ nextVisit \notin DOMAIN visits
          /\ visits'[nextVisit].status = "pending"
          /\ visits'[nextVisit].visitor = i[1]
          /\ users' = users ]_vars

C15_Witness ==
  /\ last.op = "createVisit" /\ last.resp = "Failed"
  /\ last.id \in DOMAIN visits /\ visits[last.id].status = "pending"
  /\ \A k \in 1..Len(users[visits[last.id].visitor].visits) :
        users[visits[last.id].visitor].visits[k] # last.id

IsPrefix(p, s) == Len(p) <= Len(s) /\ SubSeq(s, 1, Len(p)) = p

IsSuffix(p, s) == Len(p) <= Len(s) /\ SubSeq(s, Len(s) - Len(p) + 1, Len(s)) = p

\* C19: after a successful cancel with a reason the comment the visit had is a
\* prefix of its new comment and the reason (without surrounding blanks) ends
\* it, so repeated cancels keep all earlier text; a successful cancel without
\* a reason leaves the comment as it was
C19_CancelAppends ==
  [][ \A id \in DOMAIN visits, r \in ReasonInputs :
        cancelVisit(id, r) /\ last'.resp = "ok" =>
          LET old == visits[id].comment
              new == visits'[id].comment
          IN  IF Truthy(r)
                THEN /\ new # NullStr
                     /\ Truthy(old) =>
                          IsPrefix(old \o "\n", new)
                     /\ IsSuffix("Cancellation reason: " \o Trim(r), new)
                     /\ Len(new) >=
                          (IF Truthy(old) THEN Len(old) + 1 ELSE 0)
                            + Len("Cancellation reason: " \o Trim(r))
                ELSE new = old ]_vars

\* a second cancel with a reason on a visit created with a comment
C19_Witness ==
  /\ last.op = "cancel" /\ last.resp = "ok" /\ last.id \in DOMAIN visits
  /\ visits[last.id].comment =
       "vip\nCancellation reason: late\nCancellation reason: late"

TerminalStatuses == {"completed", "cancelled"}

\* C21: a visit whose status is completed or cancelled keeps that status under
\* every later accept, cancel, clockIn and clockOut
C21_TerminalStatusKept ==
  [][ IsLifecycleStep /\ visits[last'.id].status \in TerminalStatuses =>
        visits'[last'.id].status = visits[last'.id].status ]_vars

\* a clock-out served on a cancelled visit: the clock-out route never sets
\* cancelled, so the visit was cancelled before and still is
C21_Witness ==
  /\ last.op = "clockOut" /\ last.resp = "ok" /\ last.id \in DOMAIN visits
  /\ visits[last.id].status = "cancelled" /\ visits[last.id].clockOut # Null

\* C22: with createVisit and the lifecycle routes only, a pending or accepted
\* visit has neither clock field set, a visit in_progress has clockIn set and
\* clockOut unset, and a completed visit has both set and a duration
C22_StatusAgreesWithClocks ==
  \A id \in DOMAIN visits :
    LET v == visits[id] IN
    /\ v.status \in {"pending", "accepted"} => v.clockIn = Null /\ v.clockOut = Null
    /\ v.status = "in_progress" => v.clockIn # Null /\ v.clockOut = Null
    /\ v.status = "completed" =>
         v.clockIn # Null /\ v.clockOut # Null /\ v.duration # NullStr

C22_Witness ==
  \E id \in DOMAIN visits :
    /\ visits[id].status = "completed" /\ visits[id].clockOut > visits[id].clockIn
    /\ visits[id].duration # NullStr
    /\ last.op = "clockOut" /\ last.resp = "ok"

----------------------------------------------------------------------------
(* Properties of the attendance routes *)

\* C1: no employee has two attendance records with isActive = true
C1_SingleActive ==
  \A e \in UserIds :
    Cardinality({a \in DOMAIN attendance :
                   attendance[a].employee = e /\ attendance[a].isActive}) <= 1

\* C4: an attendance record is active exactly when its clockOut is unset
C4_ActiveIffNoClockOut ==
  \A id \in DOMAIN attendance :
    attendance[id].isActive <=> attendance[id].clockOut = Null

\* the request bodies of POST /api/attendance that the model serves
CreateAttendanceInputs ==
  (UserIds \cup {MissingId}) \X WorkingFromInputs \X (OfficeIds \cup {NullRef, MissingId})

HasActive(employee) ==
  \E a \in DOMAIN attendance : attendance[a].employee = employee /\ attendance[a].isActive

\* C12: a createAttendance that is refused stores nothing; for an existing
\* employee it answers Precondition when workingFrom = office and no office is
\* given, NotFound when the office given does not exist, Conflict when the
\* employee has an active session; with no active session left (the earlier one
\* clocked out) and a valid body it answers success and stores a record with
\* isActive = true and clockOut unset
C12_CreateAttendance ==
  [][ \A i \in CreateAttendanceInputs :
        last'.op = "createAttendance" /\ createAttendance(i[1], i[2], i[3]) =>
          LET e == i[1]  w == i[2]  o == i[3]
              officeOk == w = "home" \/ (w = "office" /\ o \in OfficeIds)
          IN /\ last'.resp # "ok" => attendance' = attendance
             /\ e \in DOMAIN users =>
                  /\ w = "office" /\ o = NullRef => last'.resp = "Precondition"
                  /\ w = "office" /\ o # NullRef /\ o \notin OfficeIds =>
                       last'.resp = "NotFound"
                  /\ HasActive(e) /\ (w = "office" => o \in OfficeIds) =>
                       last'.resp = "Conflict"
                  /\ ~HasActive(e) /\ officeOk =>
                       /\ last'.resp = "ok"
                       /\ last'.id \notin DOMAIN attendance
                       /\ DOMAIN attendance' = DOMAIN attendance \cup {last'.id}
                       /\ \A a \in DOMAIN attendance : attendance'[a] = attendance[a]
                       /\ attendance'[last'.id].employee = e
                       /\ attendance'[last'.id].isActive
                       /\ attendance'[last'.id].clockOut = Null ]_vars

\* a second session is opened after the first one was clocked out
C12_Witness ==
  /\ last.op = "createAttendance" /\ last.resp = "ok"
  /\ last.id \in DOMAIN attendance
  /\ attendance[last.id].isActive /\ attendance[last.id].clockOut = Null
  /\ \E a \in DOMAIN attendance \ {last.id} :
        /\ attendance[a].employee = attendance[last.id].employee
        /\ ~attendance[a].isActive /\ attendance[a].clockOut # Null
        /\ attendance[a].duration # NullStr

\* C13: clockOutByEmployee for an employee with an active session answers
\* success and stores clockOut = the current time, isActive = false and a
\* duration on that record; a clock-out of a session already clocked out is
\* refused and leaves the record as it was: by employee with NotFound when no
\* active session remains, by record id as not active or already clocked out
C13_ClockOutByEmployee ==
  [][ /\ \A e \in UserIds :
           clockOutByEmployee(e) =>
             IF HasActive(e)
               THEN /\ last'.resp = "ok"
                    /\ last'.id \in DOMAIN attendance
                    /\ attendance[last'.id].employee = e /\ attendance[last'.id].isActive
                    /\ attendance'[last'.id].clockOut = now'
                    /\ ~attendance'[last'.id].isActive
                    /\ attendance'[last'.id].duration # NullStr
               ELSE /\ last'.resp = "NotFound"
                    /\ attendance' = attendance
      /\ \A id \in DOMAIN attendance :
           clockOut(id) /\ ~attendance[id].isActive /\ attendance[id].clockOut # Null =>
             /\ last'.resp \in {"NotActive", "AlreadyDone"}
             /\ attendance' = attendance ]_vars

\* C14: every attendance record has an office exactly when its workingFrom
\* is office
C14_OfficeIffWorkingFromOffice ==
  \A id \in DOMAIN attendance :
    attendance[id].office # NullRef <=> attendance[id].workingFrom = "office"

----------------------------------------------------------------------------
(* Properties of the durations *)

\* the whole hours in delta minutes
WholeHours(delta) ==
  CHOOSE h \in 0..delta : h * 60 <= delta /\ delta < (h + 1) * 60

Rendered(delta) ==
  LET h == WholeHours(delta)
      m == delta - h * 60
  IN  IF h > 0 THEN ToString(h) \o "h " \o ToString(m) \o "m" ELSE ToString(m) \o "m"

\* C16: for clockIn <= clockOut the duration stored at clock-out is
\* "{hours}h {minutes}m" with hours the whole hours of the difference and
\* minutes the rest, or "{minutes}m" when there is no whole hour (125 minutes
\* give "2h 5m", 45 minutes give "45m"); Visit and Attendance store the same
\* duration for the same pair
C16_Duration ==
  /\ \A id \in DOMAIN visits :
       visits[id].clockIn # Null /\ visits[id].clockOut # Null
         /\ visits[id].clockIn <= visits[id].clockOut =>
           LET delta == visits[id].clockOut - visits[id].clockIn IN
           /\ visits[id].duration = Rendered(delta)
           /\ delta = 125 => visits[id].duration = "2h 5m"
           /\ delta = 45 => visits[id].duration = "45m"
  /\ \A id \in DOMAIN attendance :
       attendance[id].clockOut # Null /\ attendance[id].clockIn <= attendance[id].clockOut =>
         attendance[id].duration = Rendered(attendance[id].clockOut - attendance[id].clockIn)
  /\ \A v \in DOMAIN visits, a \in DOMAIN attendance :
       /\ visits[v].clockOut # Null /\ attendance[a].clockOut # Null
       /\ visits[v].clockIn = attendance[a].clockIn
       /\ visits[v].clockOut = attendance[a].clockOut
       => visits[v].duration = attendance[a].duration

C16_Witness ==
  \E v \in DOMAIN visits, a \in DOMAIN attendance :
    /\ visits[v].clockOut = visits[v].clockIn + 125
    /\ attendance[a].clockIn = visits[v].clockIn
    /\ attendance[a].clockOut = visits[v].clockOut
    /\ visits[v].duration = "2h 5m" /\ attendance[a].duration = "2h 5m"

\* C18: workHours of an attendance record is 0 when clockIn or clockOut is
\* unset and otherwise the span clockOut - clockIn in hours rounded to two
\* decimals (here the nearest hundredth of an hour); isOvertime is true exactly
\* when workHours > 8: 09:00 to 17:30 gives 8.5 and overtime, 8 hours exactly
\* gives no overtime
C18_WorkHours ==
  \A id \in DOMAIN attendance :
    LET d == attendance[id]
        c == workHours(d)
    IN  IF d.clockIn = Null \/ d.clockOut = Null
          THEN c = 0 /\ ~isOvertime(d)
          ELSE LET delta == d.clockOut - d.clockIn IN
               /\ 6 * c - 3 <= 10 * delta /\ 10 * delta < 6 * c + 3
               /\ isOvertime(d) <=> c > 800
               /\ delta = 510 => c = 850 /\ isOvertime(d)
               /\ delta = 480 => c = 800 /\ ~isOvertime(d)

C18_Witness ==
  \E id \in DOMAIN attendance :
    /\ attendance[id].clockOut = attendance[id].clockIn + 510
    /\ workHours(attendance[id]) = 850 /\ isOvertime(attendance[id])

\* the clock-out requests that have written clockOut on record id
Assigned(id) ==
  {r \in DOMAIN reqs : reqs[r].id = id /\ reqs[r].pc \in {"respond", "done"}
                          /\ reqs[r].loaded # NoDoc}

\* C23: however clock-out requests on one attendance record interleave, its
\* clockOut is written by at most one of them and at most one of them answers
\* success
C23_ClockOutOnce ==
  \A id \in DOMAIN attendance :
    /\ Cardinality(Assigned(id)) <= 1
    /\ Cardinality({r \in DOMAIN reqs : reqs[r].id = id /\ reqs[r].resp = "ok"}) <= 1

DurationAgrees(doc) ==
  IF doc.clockIn # Null /\ doc.clockOut # Null
    THEN doc.duration = FormatDuration(doc.clockOut - doc.clockIn)
    ELSE doc.duration = NullStr

\* C24: a visit or attendance record with clockIn and clockOut both set has
\* duration = the formatted difference clockOut - clockIn, and a record with
\* either of them unset has duration null
C24_DurationDerived ==
  /\ \A id \in DOMAIN visits : DurationAgrees(visits[id])
  /\ \A id \in DOMAIN attendance : DurationAgrees(attendance[id])

----------------------------------------------------------------------------
(* Properties of the attendance summary *)

SummaryNumbers(s) ==
  { s.totalSessions, s.completedSessions, s.activeSessions, s.totalWorkHours,
    s.averageWorkHours, s.officeWorkDays, s.homeWorkDays,
    s.workPattern.office, s.workPattern.home }

\* C17: the summary answered has averageWorkHours = 0 when no selected record
\* has a clockOut, workPattern.office = workPattern.home = 0 when no record is
\* selected, and no field that is NaN or the outcome of a division by zero
C17_SummaryNoNaN ==
  last.op = "summary" =>
    LET records == last.records IN
    /\ (\A a \in records : attendance[a].clockOut = Null) =>
          last.summary.averageWorkHours = Num(0)
    /\ records = {} =>
          /\ last.summary.workPattern.office = Num(0)
          /\ last.summary.workPattern.home = Num(0)
    /\ \A n \in SummaryNumbers(last.summary) : n.kind = "num"

\* a summary over no record at all, and one over an open session only
C17_Witness ==
  /\ last.op = "summary"
  /\ last.records # {}
  /\ \A a \in last.records : attendance[a].clockOut = Null
  /\ last.summary.averageWorkHours = Num(0)

----------------------------------------------------------------------------
(* Properties of the authentication *)

IsProtectedStep == last'.op \in ProtectedRoutes /\ tokens' = tokens

IsLoginStep ==
  last'.op = "login" /\ (tokens' = tokens \/ DOMAIN tokens' # DOMAIN tokens)

\* C20: a request to a protected route reaches its handler only when it carries
\* a token that verifies and names a stored user whose active is not 0; any
\* other request is answered Unauthorized and changes nothing; a user who was
\* soft-deleted is refused at login and with a token issued before
C20_AuthGate ==
  [][ /\ IsProtectedStep =>
           LET b == last'.bearer
               admitted ==
                 /\ b.sig = "ok"
                 /\ b.n \in DOMAIN tokens => ~tokens[b.n].expired
                 /\ b.userId \in DOMAIN users
                 /\ users[b.userId].active # 0
           IN  /\ admitted <=> last'.resp # "Unauthorized"
               /\ ~admitted => users' = users
      /\ IsLoginStep /\ last'.email \in DOMAIN users /\ users[last'.email].active = 0 =>
           last'.resp = "Unauthorized" /\ tokens' = tokens /\ users' = users ]_vars

\* a token issued at login is refused after its user was soft-deleted
C20_Witness ==
  /\ last.op \in ProtectedRoutes /\ last.resp = "Unauthorized"
  /\ last.id \in DOMAIN tokens /\ ~tokens[last.id].expired
  /\ users[tokens[last.id].userId].active = 0

\* C29: once logoutUser has succeeded for a user, and until that user logs in
\* again, a request that carries a token issued to that user before the logout
\* is answered Unauthorized on every protected route
C29_LogoutRevokes ==
  [][ IsProtectedStep /\ last'.bearer.n \in DOMAIN tokens
        /\ users[last'.bearer.userId].token = Null =>
          last'.resp = "Unauthorized" ]_vars

\* C30: a request to updateUser that is answered NotFound, as one addressed
\* to a soft-deleted user is, has modified no field of any user record
C30_NotFoundChangesNothing ==
  [][ IsProtectedStep /\ last'.op = "updateUser" /\ last'.resp = "NotFound" =>
        users' = users ]_vars

----------------------------------------------------------------------------
(* Properties of the service cards *)

----------------------------------------------------------------------------
(* Properties of the offices *)

\* C26: every office has currentOccupancy <= capacity, and a request that would
\* make the occupancy exceed the capacity is refused and leaves the office as
\* it was
C26_OccupancyWithinCapacity ==
  \A id \in DOMAIN offices : offices[id].currentOccupancy <= offices[id].capacity

----------------------------------------------------------------------------
(* Properties of the companies *)

\* C28: a user's employer is company c exactly when the user is in c's
\* employee list
C28_EmployerIffListed ==
  \A u \in DOMAIN users, c \in DOMAIN companies :
    users[u].employer = c <=> Includes(companies[c].employee, u)

----------------------------------------------------------------------------
(* Properties of the visits array *)

NoneInFlight == \A r \in DOMAIN reqs : reqs[r].pc = "done"

Listed(u) == {users[u].visits[i] : i \in 1..Len(users[u].visits)}

\* C27: when no request is in flight, the visits array of every user holds
\* exactly the ids of the stored visits whose visitor is that user
C27_VisitsListed ==
  NoneInFlight =>
    \A u \in DOMAIN users : Listed(u) = {id \in DOMAIN visits : visits[id].visitor = u}

====
